---- MODULE Spec2Model ----
(***************************************************************************)
(* Model of MonteCarloTreeSearch.py (class MCTS): the tree store, one      *)
(* descent step (_down_one_step), the ascent (_all_the_way_up) and the     *)
(* search loop (search), driven by an Evaluator ("handler") drawn from a   *)
(* small family of pure evaluators.                                        *)
(*                                                                         *)
(* Representation:                                                         *)
(*  - actions are numbered 1..k here (0..k-1 in the code), so a path key   *)
(*    is a sequence over 1..k and () is << >>;                             *)
(*  - values and policy entries are exact rationals <<n, d>>, d > 0, in    *)
(*    lowest terms; visits entries are integers (the code keeps them in    *)
(*    float64 arrays, where these sums are exact);                         *)
(*  - an optional argument is << >> for None and <<n>> for the integer n;  *)
(*  - `action = 0` stands for the unbound local of _all_the_way_up.        *)
(***************************************************************************)
EXTENDS Integers, Sequences, FiniteSets, TLC

\* ---------------------------------------------------------------- bounds
MaxSteps == 2
MaxSims == 2
MaxNodes == 4
MaxActions == 2
NumStates == 2

\* ------------------------------------------------------ program constants
ExplorationWeight == 10
tau == 1

VARIABLES
  handler,               \* self.handler: the Evaluator (fixed at construction)
  self_max_steps,        \* self.max_steps
  self_num_simulations,  \* self.num_simulations
  tree,                  \* self.tree: path key -> node
  pc,                    \* position of the engine
  args,                  \* the arguments of the running search() call
  l_max_steps,           \* search's local _max_steps
  l_num_simulations,     \* search's local _num_simulations
  sim,                   \* search's loop index `_`
  key,                   \* search's local key / _all_the_way_up's key
  step,                  \* search's local step
  action,                \* _all_the_way_up's local action (0: unbound)
  values_buffer,         \* _all_the_way_up's local values_buffer
  visits_buffer,         \* _all_the_way_up's local visits_buffer
  result,                \* what search() returned (<< >> before it returns)
  error,                 \* the exception that left search() ("" if none)
  draws,                 \* history: the actions sampled in this call
  call,                  \* history: "first" call or the "replay" call
  prev,                  \* history: outcome of the first call
  hist,                  \* history: per path key creation and pass counters
  visited,               \* history: keys the running descent has reached
  trail,                 \* history: keys the running ascent has updated
  flags,                 \* history: what happened in this call
  counts                 \* history: descents started, ascents completed

vars == <<handler, self_max_steps, self_num_simulations, tree, pc, args,
          l_max_steps, l_num_simulations, sim, key, step, action,
          values_buffer, visits_buffer, result, error, draws, call, prev,
          hist, visited, trail, flags, counts>>

\* ------------------------------------------------------------- rationals
\* The arithmetic is written with functions, which TLC applies to values.
Abs(n) == IF n < 0 THEN -n ELSE n
Q == Int \X Nat

gcd[a \in Nat, b \in Nat] == IF b = 0 THEN a ELSE gcd[b, a % b]

rat[n \in Int, d \in Nat] ==
  IF n = 0 THEN <<0, 1>>
  ELSE <<n \div gcd[Abs(n), d], d \div gcd[Abs(n), d]>>

radd[x \in Q, y \in Q] == rat[x[1] * y[2] + y[1] * x[2], x[2] * y[2]]

sumInt[s \in Seq(Int)] == IF s = << >> THEN 0 ELSE s[1] + sumInt[Tail(s)]

sumRat[s \in Seq(Q)] ==
  IF s = << >> THEN <<0, 1>> ELSE radd[s[1], sumRat[Tail(s)]]

pow[b \in Int, e \in Int] == IF e <= 0 THEN 1 ELSE b * pow[b, e - 1]

Rat(n, d) == rat[n, d]
RInt(n) == <<n, 1>>
RAdd(x, y) == radd[x, y]
RMulInt(x, m) == rat[x[1] * m, x[2]]
RDivInt(x, m) == rat[x[1], x[2] * m]
RSign(x) == IF x[1] > 0 THEN 1 ELSE IF x[1] < 0 THEN -1 ELSE 0
SumInt(s) == sumInt[s]
SumRat(s) == sumRat[s]
Pow(b, e) == pow[b, e]

\* node['values'] @ node['visits']
Dot(values, visits) ==
  sumRat[[i \in 1..Len(values) |-> RMulInt(values[i], visits[i])]]

\* ------------------------------------------------------------- Evaluator
\* The handler is a pure object: its answers depend on the state alone.
\*   numAct, val, sol : per state;  onehot : the shape of the prior;
\*   fail : the one operation that raises (op = "none": none does), on which
\*          state, and with which kind of exception.
States == 0..(NumStates - 1)
Values == {-11, 0, 1}
EvaluatorOps ==
  {"num_actions", "new_state", "next_possible_states", "value", "policy",
   "is_solution"}
NoFail == [op |-> "none", kind |-> "none", state |-> 0]
Failures ==
  [op : EvaluatorOps, kind : {"KeyError", "Other"}, state : States]

\* What an evaluator answers may differ between the root state and the others.
PerState(atRoot, elsewhere) ==
  [s \in States |-> IF s = 0 THEN atRoot ELSE elsewhere]

\* Evaluators that differ in their shape (action counts, solutions).
ShapeHandlers ==
  [numAct : {PerState(k0, k1) : k0, k1 \in 1..MaxActions},
   val : {[s \in States |-> s + 1]},
   sol : {PerState(b0, b1) : b0, b1 \in BOOLEAN},
   onehot : {FALSE},
   fail : {NoFail}]

\* Evaluators that differ in the numbers they predict.
ScoreHandlers ==
  [numAct : {PerState(k, k) : k \in {1, MaxActions}},
   val : {PerState(v0, v1) : v0, v1 \in Values},
   sol : {PerState(FALSE, FALSE)},
   onehot : BOOLEAN,
   fail : {NoFail}]

\* Evaluators one of whose operations raises.
FailingHandlers ==
  [numAct : {PerState(k, k) : k \in {1, MaxActions}},
   val : {[s \in States |-> s + 1]},
   sol : {PerState(FALSE, FALSE)},
   onehot : {FALSE},
   fail : Failures]

Handlers == ShapeHandlers \cup ScoreHandlers \cup FailingHandlers

root == 0
num_actions(state) == handler.numAct[state]
new_state(a, state) == (state + a) % NumStates
next_possible_states(state) ==
  [a \in 1..num_actions(state) |-> new_state(a, state)]
value(states) == [i \in 1..Len(states) |-> RInt(handler.val[states[i]])]
policy(state) ==
  [a \in 1..num_actions(state) |->
     IF handler.onehot THEN (IF a = 1 THEN RInt(1) ELSE RInt(0))
     ELSE Rat(1, num_actions(state))]
is_solution(state) == handler.sol[state]
Raises(op, state) == handler.fail.op = op /\ handler.fail.state = state

\* ------------------------------------------------------- _down_one_step
EmptyTree == << >>

\* A store that keeps only the node it is given.
PutOnly(t, k, node) == [x \in {k} |-> node]

\* line 85: self.tree.update({key: node})
Put(t, k, node) ==
  [x \in (DOMAIN t) \cup {k} |-> IF x = k THEN node ELSE t[x]]

\* lines 81-85: the node created for `state`
NewNode(state) ==
  [state |-> state,
   visits |-> [a \in 1..num_actions(state) |-> 1],
   values |-> value(next_possible_states(state)),
   policy |-> policy(state),
   stop |-> is_solution(state)]

\* line 65: values + 10*policy/visits
Choice(node) ==
  [a \in 1..Len(node.values) |->
     RAdd(node.values[a],
          RDivInt(RMulInt(node.policy[a], ExplorationWeight), node.visits[a]))]

\* line 66: p = choice/sum(choice) is refused by np.random.choice when it
\* holds a NaN (sum(choice) = 0) or a negative entry.
SampleError(choice) ==
  LET T == SumRat(choice) IN
    \/ RSign(T) = 0
    \/ \E a \in 1..Len(choice) : RSign(choice[a]) * RSign(T) < 0

\* line 66: the actions np.random.choice can return (those with p[a] > 0)
Support(choice) == {a \in 1..Len(choice) : RSign(choice[a]) # 0}

NonPositive(choice) == \E a \in 1..Len(choice) : RSign(choice[a]) <= 0

\* lines 63/75: what the outer `except KeyError` catches
Catches(kind) == kind = "KeyError"

CreateOps ==
  {"num_actions", "next_possible_states", "value", "policy", "is_solution"}

Outcome(raised, k, t, made, evalRaised, swallowed, sampled, nonpos) ==
  [raised |-> raised, key |-> k,
   stop |-> IF raised = "" THEN t[k].stop ELSE FALSE,
   tree |-> t, made |-> made, evalRaised |-> evalRaised,
   swallowed |-> swallowed, sampled |-> sampled, nonpos |-> nonpos]

\* lines 80-87: create the node of `state` under key k
CreateAt(t, k, state, swallowed, sampled, nonpos) ==
  IF \E op \in CreateOps : Raises(op, state)
  THEN Outcome(handler.fail.kind, k, t, << >>, TRUE, swallowed, sampled, nonpos)
  ELSE Outcome("", k, Put(t, k, NewNode(state)), <<k>>, swallowed, swallowed,
               sampled, nonpos)

\* lines 62-87, with a the action np.random.choice returns (if it is asked)
DownOneStep(t, k, a) ==
  IF k \notin DOMAIN t
  THEN CreateAt(t, << >>, root, FALSE, FALSE, FALSE)       \* lines 75-78
  ELSE
    LET node == t[k]
        choice == Choice(node)
        nk == Append(k, a)
    IN
      IF Raises("num_actions", node.state)                  \* line 66
      THEN IF Catches(handler.fail.kind)
           THEN CreateAt(t, << >>, root, TRUE, FALSE, FALSE)
           ELSE Outcome(handler.fail.kind, k, t, << >>, TRUE, FALSE, FALSE, FALSE)
      ELSE IF SampleError(choice)                           \* line 66
      THEN Outcome("ValueError", k, t, << >>, FALSE, FALSE, FALSE, TRUE)
      ELSE IF nk \in DOMAIN t                               \* lines 69-72
      THEN Outcome("", nk, t, << >>, FALSE, FALSE, TRUE, NonPositive(choice))
      ELSE IF Raises("new_state", node.state)               \* line 74
      THEN IF Catches(handler.fail.kind)
           THEN CreateAt(t, << >>, root, TRUE, TRUE, NonPositive(choice))
           ELSE Outcome(handler.fail.kind, k, t, << >>, TRUE, FALSE, TRUE,
                        NonPositive(choice))
      ELSE CreateAt(t, nk, new_state(a, node.state), FALSE, TRUE,
                    NonPositive(choice))

\* Does _down_one_step(k) on tree t reach np.random.choice and get an action?
Samples(t, k) ==
  /\ k \in DOMAIN t
  /\ ~Raises("num_actions", t[k].state)
  /\ ~SampleError(Choice(t[k]))

\* ---------------------------------------------------------------- search
\* line 140: `max_steps or self.max_steps` (None and 0 are both falsy)
OrDefault(arg, default) ==
  IF arg = << >> \/ arg[1] = 0 THEN default ELSE arg[1]

\* A search() that keeps the tree of the call before.
ResetTreeKeep(t) == t

\* line 142
ResetTree(t) == EmptyTree

\* An inflation that counts the terminal node once, whatever depth is left.
InflateFlat(node, max_steps, at_step) ==
  [node EXCEPT !.visits = [a \in 1..Len(node.visits) |-> node.visits[a] + 1]]

\* An inflation that also clears the terminal flag of the node.
InflateReopen(node, max_steps, at_step) ==
  [node EXCEPT !.stop = FALSE]

\* line 151: every entry of visits grows by num_actions ** (_max_steps - step)
Inflate(node, max_steps, at_step) ==
  [node EXCEPT !.visits =
     [a \in 1..Len(node.visits) |->
        node.visits[a] + Pow(num_actions(node.state), max_steps - at_step)]]

\* A loop that runs once more than asked.
MoreSimulationsInclusive(i, n) == i <= n

\* line 144: does range(_num_simulations) hold an item after i have been taken?
MoreSimulations(i, n) == i < n

\* A depth test that lets the descent go one level further.
DepthReachedLate(at_step, max_steps) == at_step = max_steps + 1

\* line 153
DepthReached(at_step, max_steps) == at_step = max_steps

\* An ascent that forgets the visits it carries up.
FoldVisitsSkip(visits, a, buffer) == visits

\* An ascent that counts one visit per simulation.
FoldVisitsOne(visits, a, buffer) == [visits EXCEPT ![a] = @ + 1]

\* An ascent that adds the carried value total without dividing it.
FoldValuesRaw(values, visits, a, buffer) ==
  [values EXCEPT ![a] = RAdd(@, buffer)]

\* An ascent that adds the carried visits to every slot of the node.
FoldVisitsAll(visits, a, buffer) ==
  [i \in 1..Len(visits) |-> visits[i] + buffer]

\* lines 108, 115: the incoming action's slots take the buffers
FoldVisits(visits, a, buffer) == [visits EXCEPT ![a] = @ + buffer]
FoldValues(values, visits, a, buffer) ==
  [values EXCEPT ![a] = RAdd(@, RDivInt(buffer, visits[a]))]

\* A normalisation by the largest entry instead of the sum.
NormalizeMax(first_visits) ==
  LET m == CHOOSE x \in {first_visits[a] : a \in 1..Len(first_visits)} :
             \A a \in 1..Len(first_visits) : first_visits[a] <= x
  IN [a \in 1..Len(first_visits) |-> Rat(first_visits[a], m)]

\* lines 161-165: first_visits**(1/tau) / sum
Normalize(first_visits) ==
  LET unnorm_probs ==
        [a \in 1..Len(first_visits) |-> Pow(first_visits[a], 1 \div tau)]
  IN [a \in 1..Len(first_visits) |-> Rat(unnorm_probs[a], SumInt(unnorm_probs))]

\* The arguments a caller passes: None, 0, -1 (num_simulations) or a positive
\* number, such that the call builds at most MaxNodes nodes; a zero or negative
\* argument comes with None for the other one.
ArgSteps == {<< >>, <<0>>} \cup {<<n>> : n \in 1..MaxSteps}
ArgSims == {<< >>, <<0>>, <<-1>>} \cup {<<n>> : n \in 1..MaxSims}
CtorSteps == {1}
CtorSims == {1}
WithinBudget(ms, ns) == ns * (ms + 1) <= MaxNodes
OneInvalid(ms, ns) ==
  /\ ms = <<0>> => ns = << >>
  /\ ns \in {<<0>>, <<-1>>} => ms = << >>

NoFlags ==
  [evalCalled |-> FALSE, evalRaised |-> FALSE, swallowed |-> FALSE,
   badSample |-> FALSE, nonpos |-> FALSE]
NoHist == [created |-> 0, passes |-> 0, through |-> 0]
NoPrev ==
  [args |-> << >>, draws |-> << >>, pc |-> "idle", error |-> "",
   tree |-> EmptyTree, result |-> << >>]

Init ==
  /\ handler \in Handlers
  /\ self_max_steps \in CtorSteps
  /\ self_num_simulations \in CtorSims
  /\ tree = EmptyTree
  /\ pc = "idle"
  /\ args = << >>
  /\ l_max_steps = 0
  /\ l_num_simulations = 0
  /\ sim = 0
  /\ key = << >>
  /\ step = 0
  /\ action = 0
  /\ values_buffer = RInt(0)
  /\ visits_buffer = 0
  /\ result = << >>
  /\ error = ""
  /\ draws = << >>
  /\ call = "none"
  /\ prev = NoPrev
  /\ hist = << >>
  /\ visited = {}
  /\ trail = << >>
  /\ flags = NoFlags
  /\ counts = [descents |-> 0, ascents |-> 0]

\* lines 139-142: search() is entered. The first call runs on the engine as
\* constructed; the second one runs on the engine the first call left behind,
\* with the same arguments and the random source seeded as for the first.
Enter(a) ==
  /\ args' = a
  /\ l_max_steps' = OrDefault(a[1], self_max_steps)
  /\ l_num_simulations' = OrDefault(a[2], self_num_simulations)
  /\ tree' = ResetTree(tree)
  /\ sim' = 0
  /\ pc' = "loop"
  /\ result' = << >>
  /\ error' = ""
  /\ draws' = << >>
  /\ hist' = << >>
  /\ visited' = {}
  /\ trail' = << >>
  /\ flags' = NoFlags
  /\ counts' = [descents |-> 0, ascents |-> 0]
  /\ UNCHANGED <<handler, self_max_steps, self_num_simulations, key, step,
                 action, values_buffer, visits_buffer>>

Search ==
  /\ pc = "idle"
  /\ \E ms \in ArgSteps, ns \in ArgSims :
       /\ WithinBudget(OrDefault(ms, self_max_steps),
                       OrDefault(ns, self_num_simulations))
       /\ OneInvalid(ms, ns)
       /\ Enter(<<ms, ns>>)
  /\ call' = "first"
  /\ prev' = prev

SearchAgain ==
  /\ pc \in {"done", "failed"}
  /\ call = "first"
  /\ Enter(args)
  /\ call' = "replay"
  /\ prev' = [args |-> args, draws |-> draws, pc |-> pc, error |-> error,
              tree |-> tree, result |-> result]

\* line 144-146: the head of the for loop starts the next simulation
NextSimulation ==
  /\ pc = "loop"
  /\ MoreSimulations(sim, l_num_simulations)
  /\ key' = << >>
  /\ step' = 0
  /\ pc' = "descend"
  /\ visited' = {<< >>}
  /\ counts' = [counts EXCEPT !.descents = @ + 1]
  /\ UNCHANGED <<handler, self_max_steps, self_num_simulations, tree, args,
                 l_max_steps, l_num_simulations, sim, action, values_buffer,
                 visits_buffer, result, error, draws, call, prev, hist, trail,
                 flags>>

\* The draws np.random.choice can make: in the replay call the random source
\* repeats the first call's draw whenever that draw is possible.
DrawSet ==
  IF ~Samples(tree, key) THEN {0}
  ELSE LET support == Support(Choice(tree[key]))
           n == Len(draws) + 1
       IN IF call = "replay" /\ n <= Len(prev.draws) /\ prev.draws[n] \in support
          THEN {prev.draws[n]}
          ELSE support

\* history: the node of made[1] was created (again)
Created(h, made) ==
  IF made = << >> THEN h
  ELSE LET k == made[1]
           old == IF k \in DOMAIN h THEN h[k] ELSE NoHist
       IN Put(h, k, [created |-> old.created + 1, passes |-> old.passes,
                     through |-> 0])

\* history: an ascent folded its buffers into the node of k
Folded(h, k) ==
  [x \in DOMAIN h |->
     IF x = k THEN [h[x] EXCEPT !.through = @ + 1] ELSE h[x]]

\* history: a simulation whose descent went through the keys of `through` is over
Passed(h, through) ==
  [x \in DOMAIN h |->
     IF x \in through THEN [h[x] EXCEPT !.passes = @ + 1] ELSE h[x]]

DescentFlags(r) ==
  [evalCalled |-> TRUE,
   evalRaised |-> flags.evalRaised \/ r.evalRaised,
   swallowed |-> flags.swallowed \/ r.swallowed,
   badSample |-> flags.badSample \/ (r.sampled /\ r.nonpos),
   nonpos |-> flags.nonpos \/ r.nonpos]

\* line 151: num_actions(state) raises in the update of a solution's visits
InflateRaises(r) ==
  r.raised = "" /\ r.stop /\ Raises("num_actions", r.tree[r.key].state)

\* lines 147-155: one turn of the while loop
Descend ==
  /\ pc = "descend"
  /\ \E a \in DrawSet : \E r \in {DownOneStep(tree, key, a)} :
         /\ r.raised = ""
         /\ ~InflateRaises(r)
         /\ key' = r.key
         /\ draws' = IF r.sampled THEN Append(draws, a) ELSE draws
         /\ hist' = Created(hist, r.made)
         /\ visited' = visited \cup {r.key}
         /\ flags' = DescentFlags(r)
         /\ IF r.stop
            THEN /\ tree' = [r.tree EXCEPT
                               ![r.key] = Inflate(@, l_max_steps, step)]
                 /\ pc' = "ascend"
                 /\ step' = step
            ELSE /\ tree' = r.tree
                 /\ IF DepthReached(step, l_max_steps)
                    THEN pc' = "ascend" /\ step' = step
                    ELSE pc' = "descend" /\ step' = step + 1
  /\ action' = 0
  /\ values_buffer' = RInt(0)
  /\ visits_buffer' = 0
  /\ trail' = << >>
  /\ UNCHANGED <<handler, self_max_steps, self_num_simulations, args,
                 l_max_steps, l_num_simulations, sim, result, error, call,
                 prev, counts>>

\* lines 147-151: a turn of the while loop that an exception leaves
DescendRaise ==
  /\ pc = "descend"
  /\ \E a \in DrawSet : \E r \in {DownOneStep(tree, key, a)} :
         /\ r.raised # "" \/ InflateRaises(r)
         /\ error' = IF r.raised # "" THEN r.raised ELSE handler.fail.kind
         /\ tree' = r.tree
         /\ key' = IF r.raised # "" THEN key ELSE r.key
         /\ draws' = IF r.sampled THEN Append(draws, a) ELSE draws
         /\ hist' = Created(hist, r.made)
         /\ flags' = [DescentFlags(r) EXCEPT
                        !.evalRaised = @ \/ InflateRaises(r)]
  /\ pc' = "failed"
  /\ UNCHANGED <<handler, self_max_steps, self_num_simulations, args,
                 l_max_steps, l_num_simulations, sim, step, action,
                 values_buffer, visits_buffer, result, call, prev, visited,
                 trail, counts>>

\* lines 103-128: one turn of _all_the_way_up's loop
Ascend ==
  /\ pc = "ascend"
  /\ key \in DOMAIN tree
  /\ \E node \in {tree[key]}, bound \in {action # 0} :
     \E visits \in {IF bound
                     THEN FoldVisits(node.visits, action, visits_buffer)
                     ELSE node.visits} :
     \E values \in {IF bound
                     THEN FoldValues(node.values, visits, action, values_buffer)
                     ELSE node.values} :
       /\ visits_buffer' = SumInt(visits)
       /\ values_buffer' = Dot(values, visits)
       /\ tree' = [tree EXCEPT ![key] = [node EXCEPT !.visits = visits,
                                                     !.values = values]]
       /\ hist' = Passed(IF bound THEN Folded(hist, key) ELSE hist,
                         IF key = << >> THEN visited ELSE {})
  /\ trail' = Append(trail, key)
  /\ IF key = << >>
     THEN /\ pc' = "loop"
          /\ sim' = sim + 1
          /\ counts' = [counts EXCEPT !.ascents = @ + 1]
          /\ UNCHANGED <<key, action>>
     ELSE /\ action' = key[Len(key)]
          /\ key' = SubSeq(key, 1, Len(key) - 1)
          /\ UNCHANGED <<pc, sim, counts>>
  /\ UNCHANGED <<handler, self_max_steps, self_num_simulations, args,
                 l_max_steps, l_num_simulations, step, result, error, draws,
                 call, prev, visited, flags>>

\* lines 159-165: the loop is over; the root's visits become the result
Return ==
  /\ pc = "loop"
  /\ ~MoreSimulations(sim, l_num_simulations)
  /\ IF << >> \in DOMAIN tree
     THEN /\ result' = Normalize(tree[<< >>].visits)
          /\ pc' = "done"
          /\ error' = error
     ELSE /\ result' = result
          /\ pc' = "failed"
          /\ error' = "KeyError"
  /\ UNCHANGED <<handler, self_max_steps, self_num_simulations, tree, args,
                 l_max_steps, l_num_simulations, sim, key, step, action,
                 values_buffer, visits_buffer, draws, call, prev, hist,
                 visited, trail, flags, counts>>

Step == NextSimulation \/ Descend \/ DescendRaise \/ Ascend \/ Return

Next == Search \/ SearchAgain \/ Step

Spec == Init /\ [][Next]_vars

\* The engine is single-threaded and synchronous: once search() is entered
\* its next step is always taken.
FairSpec == Spec /\ WF_vars(Step)

\* ================================================================ claims
PositiveParams == l_max_steps > 0 /\ l_num_simulations > 0
Returned == pc = "done"
Ended == pc \in {"done", "failed"}
RootVisits == tree[<< >>].visits

\* C1: when search() returns after a call with positive max_steps and
\* num_simulations in which every selection score was strictly positive, the
\* returned vector has num_actions(root) entries, each of them non-negative
\* and equal to the root's visits[a] over the sum of the root's visits, and
\* the entries sum to 1.
C1_Distribution ==
  (Returned /\ PositiveParams /\ ~flags.nonpos) =>
     /\ Len(result) = num_actions(root)
     /\ \A a \in 1..Len(result) :
          /\ RSign(result[a]) >= 0
          /\ result[a][1] * SumInt(RootVisits) = RootVisits[a] * result[a][2]
     /\ SumRat(result) = RInt(1)

C1_Witness ==
  /\ Returned /\ PositiveParams /\ ~flags.nonpos
  /\ l_num_simulations = 2
  /\ Len(result) = 2
  /\ result[1] # result[2]

C3_Original ==
  (Returned /\ l_num_simulations = 1) =>
     /\ \A a \in 1..Len(RootVisits) : RootVisits[a] = 1
     /\ \A a \in 1..Len(result) : result[a] = Rat(1, Len(result))

\* C3 (amended): a search() call with num_simulations = 1 returns with the
\* root's visits all equal only when its descent stopped at the root (each
\* entry is then 1, or 1 + num_actions(root)^max_steps when the root is a
\* solution); when the descent stopped below the root, the entry of the first
\* action of the stop key is 1 plus the visit total of that child and every
\* other entry is 1.
C3_SingleSimulation ==
  (Returned /\ l_num_simulations = 1) =>
     LET K == trail[1] IN
       IF K = << >>
       THEN \A a \in 1..Len(RootVisits) :
              RootVisits[a] =
                IF tree[<< >>].stop
                THEN 1 + Pow(num_actions(root), l_max_steps)
                ELSE 1
       ELSE \A a \in 1..Len(RootVisits) :
              RootVisits[a] =
                IF a = K[1] THEN 1 + SumInt(tree[<<K[1]>>].visits) ELSE 1

C3_Witness ==
  /\ Returned /\ l_num_simulations = 1
  /\ Len(result) = 2
  /\ trail[1] # << >>
  /\ result[1] # result[2]

\* C4: a search() call made on the engine an earlier call left behind, with
\* the same arguments and the same random draws, ends the way the earlier
\* call on the freshly constructed engine ended: same outcome, same returned
\* distribution, same tree.
C4_TreeReset ==
  (call = "replay" /\ Ended /\ draws = prev.draws) =>
     /\ pc = prev.pc
     /\ error = prev.error
     /\ result = prev.result
     /\ tree = prev.tree

C4_Witness ==
  /\ call = "replay" /\ Returned
  /\ draws = prev.draws /\ Len(draws) >= 2
  /\ tree = prev.tree /\ Cardinality(DOMAIN tree) >= 3

\* C5: a search() call given a zero or negative max_steps or num_simulations
\* fails before any simulation runs: no descent starts, no Evaluator
\* operation is called, no node is created, and the call never returns a
\* result computed with another value in place of the one given.
NonPositiveArg(arg) == arg # << >> /\ arg[1] <= 0
C5_Validation ==
  (call # "none" /\ (NonPositiveArg(args[1]) \/ NonPositiveArg(args[2]))) =>
     /\ counts.descents = 0
     /\ ~flags.evalCalled
     /\ tree = EmptyTree
     /\ pc # "done"

\* C6: once an Evaluator operation has raised during a call, the call has
\* ended with that failure; the search never goes on after it.
C6_FailurePropagates == flags.evalRaised => pc = "failed"

\* C7: within one search() call the node of a path key is created at most
\* once, so nothing it has accumulated is ever replaced by a fresh node.
C7_CreatedOnce == \A k \in DOMAIN hist : hist[k].created <= 1

\* C8: no action is ever sampled from selection scores that hold a zero or
\* negative entry; such a selection ends the call with an error.
C8_ScoresSurfaced == ~flags.badSample

\* C9 (as stated): with positive max_steps and num_simulations the tree never
\* holds more than num_simulations * max_steps nodes.
C9_Original ==
  PositiveParams =>
     Cardinality(DOMAIN tree) <= l_num_simulations * l_max_steps

\* C9 (amended): with positive max_steps and num_simulations the tree never
\* holds more than num_simulations * (max_steps + 1) nodes: a descent makes
\* max_steps + 1 steps and each step creates at most one node.
C9_NodeBound ==
  PositiveParams =>
     Cardinality(DOMAIN tree) <= l_num_simulations * (l_max_steps + 1)

C9_Witness ==
  /\ PositiveParams /\ l_num_simulations = 2
  /\ Cardinality(DOMAIN tree) = l_num_simulations * (l_max_steps + 1)

\* C10 (as stated, its safety half): with positive max_steps and
\* num_simulations and an Evaluator none of whose operations raises, a
\* search() call never ends in any other way than by returning.
TotalEvaluator == handler.fail.op = "none"
C10_Original == (TotalEvaluator /\ PositiveParams) => pc # "failed"

\* C10 (amended): with positive max_steps and num_simulations and an
\* Evaluator whose operations all return, a search() call ends: it returns
\* after exactly num_simulations simulations, or it is left by the sampling
\* error of a selection whose normalised scores are no probability vector.
\* Every simulation is one descent followed by one ascent, and the ascent
\* starts only after the descent has stopped (on a solution or at the depth
\* limit).
Entered ==
  pc = "loop" /\ sim = 0 /\ counts.descents = 0 /\ TotalEvaluator
  /\ PositiveParams
Completed ==
  /\ pc = "done"
  /\ sim = l_num_simulations
  /\ counts.descents = l_num_simulations
  /\ counts.ascents = l_num_simulations
SampleAbort == pc = "failed" /\ error = "ValueError" /\ flags.nonpos
InOrder ==
  /\ counts.ascents = sim
  /\ PositiveParams => counts.descents <= l_num_simulations
  /\ pc \in {"descend", "ascend"} => counts.descents = counts.ascents + 1
  /\ pc \in {"loop", "done"} => counts.descents = counts.ascents
  /\ (pc = "ascend" /\ trail = << >>) =>
        (tree[key].stop \/ step = l_max_steps)
C10_Termination ==
  /\ [](call # "none" => InOrder)
  /\ (Entered ~> (Completed \/ SampleAbort))

C10_Witness ==
  /\ Completed /\ TotalEvaluator
  /\ l_num_simulations = 2 /\ l_max_steps = 1
  /\ Len(draws) = 3

\* C11: in every simulation of a search() call, the first and every later
\* one, the descent stops at most max_steps levels below the root: every path
\* key stored in the tree, and the path key from which the ascent starts, has
\* length at most max_steps.
StopKeyReached == pc = "ascend" /\ trail = << >>
C11_DepthLimit ==
  call # "none" =>
     /\ \A k \in DOMAIN tree : Len(k) <= l_max_steps
     /\ StopKeyReached => Len(key) <= l_max_steps

\* C12: the tree never holds a node whose path key is a proper extension of
\* the path key of a node flagged terminal, the root included: no descent
\* selects an action from a terminal node.
ProperPrefix(k, x) == Len(k) < Len(x) /\ SubSeq(x, 1, Len(k)) = k
C12_TerminalStop ==
  \A k \in DOMAIN tree : \A x \in DOMAIN tree :
     tree[k].stop => ~ProperPrefix(k, x)

\* C13 (as stated): when a descent stops on a terminal node after `step` loop
\* steps, the sum of that node's visits vector grows by exactly
\* num_actions(state)^(max_steps - step) before the ascent starts; when it
\* stops on a non-terminal node at the depth limit, that node's visits are
\* left as the descent step found or created them.
DescentStops == pc = "descend" /\ pc' = "ascend"
JustCreated(k) ==
  /\ k \in DOMAIN hist'
  /\ k \notin DOMAIN hist \/ hist'[k].created # hist[k].created
VisitsBefore(k) ==
  IF JustCreated(k)
  THEN [a \in 1..num_actions(tree'[k].state) |-> 1]
  ELSE tree[k].visits
C13_Original ==
  [][DescentStops =>
       IF tree'[key'].stop
       THEN SumInt(tree'[key'].visits) =
              SumInt(VisitsBefore(key'))
                + Pow(num_actions(tree'[key'].state), l_max_steps - step)
       ELSE tree'[key'].visits = VisitsBefore(key')]_vars

\* C13 (amended): when a descent stops on a terminal node after `step` loop
\* steps, every entry of that node's visits vector grows by exactly
\* num_actions(state)^(max_steps - step), so their sum grows by
\* num_actions(state)^(max_steps - step + 1); when it stops on a non-terminal
\* node at the depth limit, that node's visits are not inflated.
C13_EntryInflation ==
  [][DescentStops =>
       IF tree'[key'].stop
       THEN /\ \A a \in 1..Len(tree'[key'].visits) :
                 tree'[key'].visits[a] =
                   VisitsBefore(key')[a]
                     + Pow(num_actions(tree'[key'].state), l_max_steps - step)
            /\ SumInt(tree'[key'].visits) =
                 SumInt(VisitsBefore(key'))
                   + Pow(num_actions(tree'[key'].state),
                         l_max_steps - step + 1)
       ELSE tree'[key'].visits = VisitsBefore(key')]_vars

C13_Witness ==
  /\ StopKeyReached /\ tree[key].stop
  /\ l_max_steps = 2 /\ step = 1
  /\ tree[key].visits = <<3, 3>>

\* C14: in one ascent from stop key K the node at K has no entry of visits or
\* values changed; at every proper prefix P of K, with a the action that
\* follows P in K, visits[a] grows by exactly the sum of the visits vector of
\* the child P+(a) as the ascent has just left it, and values[a] then grows
\* by the dot product of the child's values and visits divided by the
\* already incremented visits[a].
C14_BackpropUpdate ==
  [][pc = "ascend" =>
       LET node == tree[key]
           new == tree'[key]
       IN IF trail = << >>
          THEN new.visits = node.visits /\ new.values = node.values
          ELSE LET child == tree[Append(key, action)] IN
                 /\ trail[Len(trail)] = Append(key, action)
                 /\ new.visits[action] =
                      node.visits[action] + SumInt(child.visits)
                 /\ new.values[action] =
                      RAdd(node.values[action],
                           RDivInt(Dot(child.values, child.visits),
                                   new.visits[action]))]_vars

C14_Witness ==
  /\ pc = "loop" /\ Len(trail) = 3
  /\ tree[<< >>].visits[trail[1][1]] > 1 + num_actions(tree[trail[2]].state)
  /\ tree[<< >>].values[trail[1][1]] # NewNode(root).values[trail[1][1]]

\* C15: one ascent from stop key K visits exactly the Len(K) + 1 nodes whose
\* keys are the prefixes of K, each once and from the leaf to the root; it
\* leaves unchanged every node whose key is not the one being visited and, in
\* the visited node, every visits and values entry other than the one of the
\* action on the path (and the state, policy and stop fields).
PrefixOfLength(k, n) == SubSeq(k, 1, n)
LeafToRoot ==
  trail # << >> =>
     LET K == trail[1] IN
       /\ Len(trail) <= Len(K) + 1
       /\ \A i \in 1..Len(trail) : trail[i] = PrefixOfLength(K, Len(K) - i + 1)
       /\ pc = "ascend" => key = PrefixOfLength(K, Len(K) - Len(trail))
       /\ pc \in {"loop", "done"} => Len(trail) = Len(K) + 1
AscentFrame ==
  /\ DOMAIN tree' = DOMAIN tree
  /\ \A k \in DOMAIN tree : k # key => tree'[k] = tree[k]
  /\ tree'[key].state = tree[key].state
  /\ tree'[key].policy = tree[key].policy
  /\ tree'[key].stop = tree[key].stop
  /\ Len(tree'[key].visits) = Len(tree[key].visits)
  /\ Len(tree'[key].values) = Len(tree[key].values)
  /\ \A a \in 1..Len(tree[key].visits) :
       a # action => /\ tree'[key].visits[a] = tree[key].visits[a]
                     /\ tree'[key].values[a] = tree[key].values[a]
  /\ trail' = Append(trail, key)
C15_BackpropFrame ==
  /\ [](call # "none" => LeafToRoot)
  /\ [][pc = "ascend" => AscentFrame]_vars

C15_Witness ==
  /\ pc = "loop" /\ Len(trail) = 3
  /\ Cardinality(DOMAIN tree) = 4
  /\ Len(RootVisits) = 2
  /\ RootVisits[1] > 1 /\ RootVisits[2] > 1

\* C16: once a node has been created in a search() call it stays in the tree
\* and its state, its policy vector and its terminal flag never change for
\* the rest of that call: descent, terminal inflation and ascent modify only
\* visits and values, so the three fields are always the ones the node was
\* created with (the state its key leads to, and what the Evaluator says of
\* that state).
InCall == pc \in {"loop", "descend", "ascend"}
StateAt[k \in Seq(Nat)] ==
  IF k = << >> THEN root
  ELSE new_state(k[Len(k)], StateAt[SubSeq(k, 1, Len(k) - 1)])
AsCreated(k) ==
  /\ tree[k].state = StateAt[k]
  /\ tree[k].policy = policy(tree[k].state)
  /\ tree[k].stop = is_solution(tree[k].state)
C16_ImmutableFields ==
  /\ [](\A k \in DOMAIN tree : AsCreated(k))
  /\ [][InCall =>
          \A k \in DOMAIN tree :
             /\ k \in DOMAIN tree'
             /\ tree'[k].state = tree[k].state
             /\ tree'[k].policy = tree[k].policy
             /\ tree'[k].stop = tree[k].stop]_vars

C16_Witness ==
  /\ pc = "done" /\ l_num_simulations = 2
  /\ tree[<< >>].stop
  /\ RootVisits # NewNode(root).visits
  /\ tree[<< >>].values # NewNode(root).values

\* C17: in every state of a search() call every node's visits vector has
\* exactly num_actions(node state) entries, each at least 1, and no step
\* (descent, terminal inflation, ascent) ever decreases an entry.
VisitsShape(t) ==
  \A k \in DOMAIN t :
     /\ Len(t[k].visits) = num_actions(t[k].state)
     /\ \A a \in 1..Len(t[k].visits) : t[k].visits[a] >= 1
C17_VisitsPositive ==
  /\ [](VisitsShape(tree))
  /\ [][InCall =>
          \A k \in DOMAIN tree :
             /\ k \in DOMAIN tree'
             /\ \A a \in 1..Len(tree[k].visits) :
                  tree'[k].visits[a] >= tree[k].visits[a]]_vars

\* C18: after any number of completed simulations, for every node and action
\* a, values[a] is a mean of the value outcomes of the subtree under a, so it
\* lies between the smallest and the largest value estimate the Evaluator
\* returned for states in that subtree.
Under(k, a) ==
  {x \in DOMAIN tree : Len(x) > Len(k) /\ SubSeq(x, 1, Len(k) + 1) = Append(k, a)}
Estimates(k, a) ==
  {handler.val[new_state(a, tree[k].state)]}
    \cup UNION {{handler.val[new_state(b, tree[x].state)] :
                   b \in 1..num_actions(tree[x].state)} : x \in Under(k, a)}
Within(x, lows, highs) ==
  /\ \E lo \in lows : lo * x[2] <= x[1]
  /\ \E hi \in highs : x[1] <= hi * x[2]
C18_RunningMean ==
  (call # "none" /\ pc \in {"loop", "done"}) =>
     \A k \in DOMAIN tree : \A a \in 1..Len(tree[k].values) :
        Within(tree[k].values[a], Estimates(k, a), Estimates(k, a))

\* C19: once the first descent step of a search() call has returned, the tree
\* holds the root key () and, with every non-empty key, the key with the last
\* action dropped; every key a descent step returns is in the tree, so the
\* ascent's node lookup never misses, and the final read of the root's visits
\* misses only in a call that ran no descent at all.
DropLast(k) == SubSeq(k, 1, Len(k) - 1)
PrefixClosed(t) ==
  \A k \in DOMAIN t : k # << >> => DropLast(k) \in DOMAIN t
FirstStepReturned == flags.evalCalled /\ (InCall \/ pc = "done")
C19_PrefixClosed ==
  /\ [](/\ PrefixClosed(tree)
        /\ tree # EmptyTree => << >> \in DOMAIN tree
        /\ FirstStepReturned => << >> \in DOMAIN tree /\ key \in DOMAIN tree)
  /\ [][(pc = "loop" /\ pc' = "failed") => counts.descents = 0]_vars

C19_Witness ==
  /\ pc = "done" /\ flags.swallowed
  /\ Cardinality(DOMAIN tree) >= 2
  /\ \E k \in DOMAIN tree : Len(k) = 1

====
